---- MODULE Spec2Model ----
(***************************************************************************)
(* Model of the draft-order backend-for-frontend: the entry-point variants *)
(* of src/unnamed/part_000 and src/index.js, their authorizers, the        *)
(* client-credentials token cache and the draft-order handlers.            *)
(*                                                                         *)
(* Strings are sequences of symbols.  A symbol is a one-element piece of   *)
(* text: a letter, a blank, "/", a protocol name ("https:") or the shop    *)
(* suffix ".myshopify.com" (in either case).  Time is Date.now() in        *)
(* milliseconds, counted from the start of the process.                    *)
(***************************************************************************)
EXTENDS Integers, Sequences, FiniteSets, TLC

VARIABLES
    variant,          \* which entry point runs (one of Variants)
    env,              \* process.env after load-env.js
    phase,            \* "boot" | "serving" | "exited"
    now,              \* Date.now(), ms
    ticks,            \* how many times the clock has advanced
    cachedToken,      \* cachedToken / ccToken
    tokenExpiresAt,   \* tokenExpiresAt / ccExpiresAt
    acq,              \* when, and with which expires_in, the cached token was acquired
    ccRead,           \* the cache slot has been read by a token call
    issued,           \* token endpoint: true expiry instant of every token issued
    sessions,         \* session store: the session ids that hold a session
    req,              \* the inbound requests (and the start-up token test, id 0)
    logs,             \* console output, as a set of lines
    norm              \* a shop string and what normalizeShop made of it so far

vars == <<variant, env, phase, now, ticks, cachedToken, tokenExpiresAt, acq, ccRead,
          issued, sessions, req, logs, norm>>

-----------------------------------------------------------------------------
(* Bounds *)

NReq == 2
MaxTicks == 2
TokLen == 13
MaxShopLen == 4
MaxApply == 2

(* Program constants *)

MARGIN_MS == 60000
DEFAULT_EXPIRES_IN == 86400
MASK_LOG_PREFIX == 10
MASK_HEAD == 8
MASK_TAIL == 4
SNIPPET_MAX == 300

-----------------------------------------------------------------------------
(* Strings *)

UNDEF == <<"<undefined>">>
EMPTY == <<>>
SUFFIX == <<".myshopify.com">>

IsSet(s) == s # UNDEF /\ s # EMPTY

\* a || b on env strings
OrElse(a, b) == IF IsSet(a) THEN a ELSE b

LowerSym(c) ==
    CASE c = "A" -> "a"
      [] c = "B" -> "b"
      [] c = ".MYSHOPIFY.COM" -> ".myshopify.com"
      [] c = "HTTPS:" -> "https:"
      [] OTHER -> c

toLowerCase(s) == [i \in 1..Len(s) |-> LowerSym(s[i])]

RECURSIVE trimStart(_)
trimStart(s) == IF s # <<>> /\ Head(s) = " " THEN trimStart(Tail(s)) ELSE s

RECURSIVE trimEnd(_)
trimEnd(s) ==
    IF s # <<>> /\ s[Len(s)] = " " THEN trimEnd(SubSeq(s, 1, Len(s) - 1)) ELSE s

trim(s) == trimEnd(trimStart(s))

includes(s, sub) == \E i \in 1..(Len(s) - Len(sub) + 1) : SubSeq(s, i, i + Len(sub) - 1) = sub

startsWith(s, pre) == Len(s) >= Len(pre) /\ SubSeq(s, 1, Len(pre)) = pre

\* s.split("/")[0]
RECURSIVE splitSlash0(_)
splitSlash0(s) ==
    IF s = <<>> \/ Head(s) = "/" THEN <<>> ELSE <<Head(s)>> \o splitSlash0(Tail(s))

\* s.replace(/\/$/, "")
stripTrailingSlash(s) ==
    IF s # <<>> /\ s[Len(s)] = "/" THEN SubSeq(s, 1, Len(s) - 1) ELSE s

\* s.replace(/^https?:\/\//, "")
stripProtocol(s) ==
    IF Len(s) >= 3 /\ s[1] \in {"http:", "https:"} /\ s[2] = "/" /\ s[3] = "/"
    THEN SubSeq(s, 4, Len(s))
    ELSE s

\* s.slice(0, n)
sliceHead(s, n) == SubSeq(s, 1, IF n < Len(s) THEN n ELSE Len(s))

\* s.slice(-n)
sliceTail(s, n) == SubSeq(s, IF Len(s) - n + 1 > 1 THEN Len(s) - n + 1 ELSE 1, Len(s))

-----------------------------------------------------------------------------
(* Shop Identity Resolver *)

\* normalizeShop of the JWT + client-credentials and the client-credentials-only entry points
normalizeShop(shop) ==
    IF ~IsSet(shop) THEN EMPTY
    ELSE LET s == toLowerCase(trim(shop))
         IN  IF includes(s, SUFFIX) THEN splitSlash0(s) ELSE s \o SUFFIX

\* normalizeShop of the static-token entry point
normalizeShopStatic(shop) ==
    IF ~IsSet(shop) THEN EMPTY
    ELSE LET s == stripTrailingSlash(toLowerCase(trim(shop)))
         IN  IF includes(s, SUFFIX) THEN s ELSE s \o SUFFIX

-----------------------------------------------------------------------------
(* Entry points and configuration *)

Variants == {"jwt_cc", "cc_only", "lib_session", "static_cc", "session_v1", "session_v2"}

\* entry points that hold the client-credentials cache
TokenVariants == {"jwt_cc", "cc_only", "static_cc"}

\* entry points whose own sessionTokenAuth verifies the bearer token
JwtVariants == {"jwt_cc", "session_v1", "session_v2"}

SECRET == <<"secret-1">>
OTHER_SECRET == <<"secret-2">>
CLIENT == <<"client-id">>
STATIC == <<"shpat", "_", "s", "t", "a", "t", "i", "c", "0", "1", "2", "3", "4">>

NoEnv ==
    [SHOPIFY_SHOP |-> UNDEF, SHOP |-> UNDEF, SHOPIFY_CLIENT_ID |-> UNDEF,
     SHOPIFY_API_KEY |-> UNDEF, SHOPIFY_CLIENT_SECRET |-> UNDEF,
     SHOPIFY_API_SECRET |-> UNDEF, SHOPIFY_ACCESS_TOKEN |-> UNDEF]

\* the configurations the process is started with
Envs ==
    { \* client id and secret, under both names of the secret
      [NoEnv EXCEPT !.SHOPIFY_SHOP = <<"a">>, !.SHOPIFY_CLIENT_ID = CLIENT,
                    !.SHOPIFY_CLIENT_SECRET = SECRET, !.SHOPIFY_API_SECRET = SECRET],
      \* client id and secret, under the SHOPIFY_CLIENT_* names only
      [NoEnv EXCEPT !.SHOP = <<" ", "A", ".MYSHOPIFY.COM", "/">>, !.SHOPIFY_CLIENT_ID = CLIENT,
                    !.SHOPIFY_CLIENT_SECRET = SECRET],
      \* static token only
      [NoEnv EXCEPT !.SHOPIFY_SHOP = <<"a", ".myshopify.com">>,
                    !.SHOPIFY_ACCESS_TOKEN = <<" ">> \o STATIC],
      \* a blank static token beside the client credentials
      [NoEnv EXCEPT !.SHOPIFY_SHOP = <<"a">>, !.SHOPIFY_API_KEY = CLIENT,
                    !.SHOPIFY_API_SECRET = SECRET, !.SHOPIFY_ACCESS_TOKEN = <<" ">>],
      \* no shop
      [NoEnv EXCEPT !.SHOPIFY_CLIENT_ID = CLIENT, !.SHOPIFY_CLIENT_SECRET = SECRET],
      \* no credentials at all
      [NoEnv EXCEPT !.SHOPIFY_SHOP = <<"a">>, !.SHOPIFY_CLIENT_ID = CLIENT],
      \* nothing set
      NoEnv }

SHOP == OrElse(env.SHOPIFY_SHOP, env.SHOP)
CLIENT_ID == OrElse(env.SHOPIFY_CLIENT_ID, env.SHOPIFY_API_KEY)
CLIENT_SECRET == OrElse(env.SHOPIFY_CLIENT_SECRET, env.SHOPIFY_API_SECRET)

\* (process.env.SHOPIFY_ACCESS_TOKEN || "").trim(); only the static-token entry point reads it
STATIC_ACCESS_TOKEN ==
    IF variant = "static_cc" THEN trim(OrElse(env.SHOPIFY_ACCESS_TOKEN, EMPTY)) ELSE EMPTY

SHOP_DOMAIN == IF variant = "static_cc" THEN normalizeShopStatic(SHOP) ELSE normalizeShop(SHOP)

\* load-env.js
HAS_STATIC_TOKEN == trim(OrElse(env.SHOPIFY_ACCESS_TOKEN, EMPTY)) # EMPTY
HAS_CLIENT_CREDS == IsSet(CLIENT_ID) /\ IsSet(CLIENT_SECRET)

\* what load-env.js writes before process.exit(1); empty when it lets the process go on
LoadEnvErrors ==
    IF ~IsSet(SHOP)
    THEN {<<"Missing required env var:", "SHOPIFY_SHOP",
            "(e.g. your-store.myshopify.com or your-store)">>}
    ELSE IF ~HAS_STATIC_TOKEN /\ ~HAS_CLIENT_CREDS
         THEN {<<"Auth config missing. Provide ONE of:",
                 "1.", "SHOPIFY_ACCESS_TOKEN", "(from a custom app in Shopify Admin)",
                 "2.", "SHOPIFY_CLIENT_ID", "+", "SHOPIFY_CLIENT_SECRET",
                 "(Dev Dashboard org app only)">>}
         ELSE {}

-----------------------------------------------------------------------------
(* Requests *)

Reqs == 0..NReq          \* 0 is the start-up token test of the static-token entry point
Inbound == 1..NReq

NoCtx == [set |-> FALSE, shop |-> EMPTY, accessToken |-> EMPTY]
NoJwt == [form |-> "none", key |-> EMPTY, expired |-> FALSE, dest |-> UNDEF, des |-> UNDEF]
NoMsg == [kind |-> "none", access_token |-> EMPTY, has_expires_in |-> FALSE, expires_in |-> 0]

NoAcq == [at |-> 0, has_expires_in |-> FALSE, expires_in |-> 0]

\* JSON null
NULL == <<"null">>

\* the JSON object of a response; UNDEF marks a key that is not sent
NoJson ==
    [error |-> UNDEF, errors |-> UNDEF, draftOrder |-> UNDEF, order |-> UNDEF,
     deleted |-> UNDEF, deletedDraftOrderId |-> UNDEF, draftOrders |-> UNDEF, isDraft |-> UNDEF]

\* what the Admin API answered to the GraphQL request; UNDEF marks a field the query did
\* not select
NoUp ==
    [kind |-> "none", userErrors |-> UNDEF, draftOrder |-> UNDEF,
     deletedDraftOrderId |-> UNDEF, deletedId |-> UNDEF, nodes |-> UNDEF]

IdleReq ==
    [pc |-> "idle", route |-> "none", auth |-> "none", jwt |-> NoJwt, rawId |-> UNDEF,
     trace |-> <<>>, ctx |-> NoCtx, handler |-> FALSE,
     status |-> 0, code |-> "", body |-> <<>>, responses |-> 0,
     tokReqs |-> 0, tokMsg |-> NoMsg, tokResult |-> "none", token |-> EMPTY, tokExpired |-> FALSE,
     lookups |-> <<>>, gqlReqs |-> 0, gqlId |-> UNDEF, upstream |-> NoUp, json |-> NoJson]

\* shops the bearer tokens name
SHOP_A == <<"a", ".myshopify.com">>
SHOP_B == <<"b", ".myshopify.com">>

\* mutant: the bare shop id is tried first
sessionIds_BareFirst(shop) ==
    << shop, <<"offline_">> \o shop, <<"offline_", "https:", "/", "/">> \o shop >>

\* const sessionIds = [`offline_${shop}`, `offline_https://${shop}`, shop]
sessionIds(shop) ==
    << <<"offline_">> \o shop, <<"offline_", "https:", "/", "/">> \o shop, shop >>

\* const sessionId = `offline_${shop}` of the earlier stored-session authorizer
sessionIdsV1(shop) == << <<"offline_">> \o shop >>

SessionIds(shop) == {sessionIds(shop)[i] : i \in 1..Len(sessionIds(shop))}

SESSION_TOKEN == <<"shpua", "_", "s", "e", "s", "s", "i", "o", "n", "0", "1", "2", "3">>

\* no normalizeShop call under study
NoNorm == [fn |-> "none", x |-> EMPTY, ys |-> <<>>]

Init ==
    /\ variant \in Variants
    /\ env \in Envs
    /\ phase = "boot"
    /\ now = 0
    /\ ticks = 0
    /\ cachedToken = UNDEF
    /\ tokenExpiresAt = 0
    /\ acq = NoAcq
    /\ ccRead = FALSE
    /\ issued = {}
    /\ sessions \in (IF variant \in {"session_v1", "session_v2"}
                    THEN SUBSET SessionIds(SHOP_A) ELSE {{}})
    /\ req = [r \in Reqs |-> IdleReq]
    /\ logs = {}
    /\ norm = NoNorm

-----------------------------------------------------------------------------
(* Credential Provider: getToken / getAccessToken *)

NaN == 0 - 1

\* if (STATIC_ACCESS_TOKEN) return STATIC_ACCESS_TOKEN
UsesStatic == STATIC_ACCESS_TOKEN # EMPTY

\* mutant: the cached token is used up to its expiry, without the safety margin
CacheFresh_NoMargin(tok, exp, t) == IsSet(tok) /\ exp # NaN /\ t < exp

\* cachedToken && Date.now() < tokenExpiresAt - 60_000
CacheFresh(tok, exp, t) == IsSet(tok) /\ exp # NaN /\ t < exp - MARGIN_MS

\* Date.now() + expires_in * 1000, with the entry point's treatment of a missing expires_in
ExpiryOf(msg, t) ==
    IF msg.has_expires_in THEN t + msg.expires_in * 1000
    ELSE IF variant = "static_cc" THEN t + DEFAULT_EXPIRES_IN * 1000
    ELSE NaN

\* mutant: the static token is not preferred
TokenCallKind_IgnoresStatic ==
    IF CacheFresh(cachedToken, tokenExpiresAt, now) THEN "cached" ELSE "fetch"

\* what the synchronous part of a token call decides
TokenCallKind ==
    IF UsesStatic THEN "static"
    ELSE IF CacheFresh(cachedToken, tokenExpiresAt, now) THEN "cached"
    ELSE "fetch"

\* the token endpoint's true expiry of a token; a token it never issued does not expire
Expired(tok, t) == \E i \in issued : i.token = tok /\ t >= i.expiresAt

TokStr(n) == <<"shpat", "_", ToString(n)>> \o [i \in 1..(TokLen - 3) |-> "x"]

\* access_token.slice(0, 10) + "..."
maskForLog(tok) == IF IsSet(tok) THEN sliceHead(tok, MASK_LOG_PREFIX) \o <<"...">> ELSE <<"null">>

\* accessToken.slice(0, 8) + "..." + accessToken.slice(-4)
maskForBody(tok) == sliceHead(tok, MASK_HEAD) \o <<"...">> \o sliceTail(tok, MASK_TAIL)

\* the text of a failed upstream response, cut as the static-token entry point cuts it
snippet(text) == IF Len(text) > SNIPPET_MAX THEN sliceHead(text, SNIPPET_MAX) ELSE text

UPSTREAM_TEXT == <<"<upstream error body>">>

\* err.message of a failed token call
TokenErrMessage(msg) ==
    IF msg.kind = "network_error" THEN <<"fetch failed">>
    ELSE IF variant = "static_cc"
         THEN <<"client_credentials failed", "Response:">> \o snippet(UPSTREAM_TEXT)
         ELSE <<"Token request failed">> \o UPSTREAM_TEXT

-----------------------------------------------------------------------------
(* Operation Dispatcher *)

GID_PREFIX == <<"gid:", "/", "/">>

DecodeSym(c) == IF c = "%2F" THEN "/" ELSE IF c = "%3A" THEN ":" ELSE c

\* decodeURIComponent throws URIError: a "%" that starts no escape sequence
Malformed(s) == \E i \in 1..Len(s) : s[i] = "%"

decodeURIComponent(s) == [i \in 1..Len(s) |-> DecodeSym(s[i])]

\* mutant: the decoded id is passed on as it is
parseDraftId_Bare(rawId) ==
    IF ~IsSet(rawId) THEN NULL ELSE decodeURIComponent(rawId)

parseDraftId(rawId) ==
    IF ~IsSet(rawId) THEN NULL
    ELSE LET id == decodeURIComponent(rawId)
         IN  IF startsWith(id, GID_PREFIX) THEN id
             ELSE GID_PREFIX \o <<"shopify", "/", "DraftOrder", "/">> \o id

\* res.status(status).json({ error: body, code }) for an error, the text body otherwise
Respond(rq, status, code, body) ==
    [rq EXCEPT !.pc = "done", !.status = status, !.code = code, !.body = body,
               !.responses = @ + 1,
               !.json = IF status >= 400 THEN [NoJson EXCEPT !.error = body] ELSE NoJson]

\* res.status(status).json(json)
RespondJson(rq, status, json) ==
    [rq EXCEPT !.pc = "done", !.status = status, !.json = json, !.responses = @ + 1]

FailMessage(route) ==
    CASE route = "complete" -> "Failed to complete draft order"
      [] route = "delete" -> "Failed to delete draft order"
      [] OTHER -> "Failed to fetch draft orders"

ErrorLog(route) ==
    CASE route = "complete" -> "Error completing draft order:"
      [] route = "delete" -> "Error deleting draft order:"
      [] route = "check" -> "Error checking draft order:"
      [] OTHER -> "Error fetching draft orders:"

\* mutant: the catch block of every handler answers 500
HandlerCatch_Always500(rq) == Respond(rq, 500, "", <<FailMessage(rq.route)>>)

\* the catch block of a route handler
HandlerCatch(rq) ==
    IF rq.route = "check" THEN RespondJson(rq, 200, [NoJson EXCEPT !.isDraft = <<"false">>])
    ELSE Respond(rq, 500, "", <<FailMessage(rq.route)>>)

\* mutant: the list handler does not require customerId
EnterHandler_NoValidation(rq) ==
    [rq EXCEPT !.handler = TRUE, !.gqlReqs = @ + 1, !.pc = "gql_sent",
               !.gqlId = IF rq.route = "list" THEN UNDEF ELSE parseDraftId(rq.rawId)]

\* mutant: the handler sends its upstream request a second time
EnterHandler_SendsTwice(rq) ==
    [rq EXCEPT !.handler = TRUE, !.gqlId = parseDraftId(rq.rawId), !.gqlReqs = @ + 2,
               !.pc = "gql_sent"]

\* a route handler up to its upstream call, or to its response when it makes none
EnterHandler(rq) ==
    LET h == [rq EXCEPT !.handler = TRUE]
    IN  CASE rq.route = "list" ->
                IF ~IsSet(rq.rawId) THEN Respond(h, 400, "", <<"customerId is required">>)
                ELSE [h EXCEPT !.gqlReqs = @ + 1, !.pc = "gql_sent"]
          [] Malformed(rq.rawId) -> HandlerCatch(h)
          [] rq.route = "check" /\ parseDraftId(rq.rawId) = NULL ->
                Respond(h, 400, "", <<"orderId is required">>)
          [] OTHER ->
                [h EXCEPT !.gqlId = parseDraftId(rq.rawId), !.gqlReqs = @ + 1, !.pc = "gql_sent"]

\* console.error of the catch block when the handler throws before its upstream call
EnterLogs(rq) ==
    IF rq.route \in {"complete", "delete", "check"} /\ IsSet(rq.rawId) /\ Malformed(rq.rawId)
    THEN {<<ErrorLog(rq.route), "<error>">>}
    ELSE {}

-----------------------------------------------------------------------------
(* The caller of a token call resumes *)

\* await getToken() returned tok: the middleware sets req.shopSession and calls next(),
\* the test-token route answers with the masked token, the start-up test logs it
ResumeWithToken(rq, tok) ==
    LET got == [rq EXCEPT !.tokResult = "ok", !.token = tok, !.tokExpired = Expired(tok, now)]
    IN  CASE rq.route = "startup" -> [got EXCEPT !.pc = "done"]
          [] rq.route = "test_token" ->
                Respond(got, 200, "", <<"ok", "token:">> \o maskForBody(tok) \o SHOP_DOMAIN)
          [] OTHER ->
                EnterHandler([got EXCEPT !.ctx = [set |-> TRUE, shop |-> SHOP_DOMAIN,
                                                  accessToken |-> tok]])

LogsWithToken(rq, tok) ==
    IF rq.route = "startup" THEN {<<"Token OK:">> \o tok}
    ELSE IF rq.route = "test_token" THEN {}
    ELSE EnterLogs(rq)

\* await getToken() threw
ResumeTokenFailed(rq, msg) ==
    LET got == [rq EXCEPT !.tokResult = "error"]
    IN  CASE rq.route = "startup" -> [got EXCEPT !.pc = "done"]
          [] rq.route = "test_token" -> Respond(got, 500, "", <<"ok:false">> \o TokenErrMessage(msg))
          [] variant = "static_cc" -> Respond(got, 503, "token_failed", TokenErrMessage(msg))
          [] OTHER -> Respond(got, 503, "token_failed", <<"Could not get access token">>)

LogsTokenFailed(rq, msg) ==
    CASE rq.route = "startup" -> {<<"Token FAILED:">> \o TokenErrMessage(msg)}
      [] rq.route = "test_token" -> {}
      [] variant = "static_cc" -> {<<"getAccessToken failed:">> \o TokenErrMessage(msg)}
      [] OTHER -> {<<"getToken failed:">> \o TokenErrMessage(msg)}

\* the synchronous part of getToken / getAccessToken, called for rq
BeginToken(rq) ==
    CASE TokenCallKind = "static" -> ResumeWithToken(rq, STATIC_ACCESS_TOKEN)
      [] TokenCallKind = "cached" -> ResumeWithToken(rq, cachedToken)
      [] OTHER -> [rq EXCEPT !.pc = "tok_sent", !.tokReqs = @ + 1]

LogsBeginToken(rq) ==
    (IF variant = "static_cc" THEN {<<"getAccessToken function">>} ELSE {})
    \cup (CASE TokenCallKind = "static" -> LogsWithToken(rq, STATIC_ACCESS_TOKEN)
            [] TokenCallKind = "cached" -> LogsWithToken(rq, cachedToken)
            [] OTHER -> {})

\* the call looked at the cache slot
ReadsCache == TokenCallKind # "static"

-----------------------------------------------------------------------------
(* Start-up *)

StartupLogs ==
    IF variant = "static_cc"
    THEN { <<"STATIC_ACCESS_TOKEN">> \o STATIC_ACCESS_TOKEN,
           <<"CLIENT_ID">> \o CLIENT_ID,
           <<"CLIENT_SECRET">> \o CLIENT_SECRET,
           <<"Server running on port">>,
           <<"Shop:">> \o SHOP_DOMAIN,
           <<"Auth:", IF UsesStatic THEN "SHOPIFY_ACCESS_TOKEN (static)"
                      ELSE "client_credentials (auto-refresh)">> }
    ELSE { <<"Server running on port">> }

\* load-env.js, then the entry point's top level and its listen callback
Startup ==
    /\ phase = "boot"
    /\ IF LoadEnvErrors # {}
       THEN /\ phase' = "exited"
            /\ logs' = logs \cup LoadEnvErrors
            /\ UNCHANGED <<req, ccRead>>
       ELSE IF variant = "static_cc" /\ SHOP_DOMAIN = EMPTY
       THEN /\ phase' = "exited"
            /\ logs' = logs \cup {<<"SHOPIFY_SHOP", "is missing.">>}
            /\ UNCHANGED <<req, ccRead>>
       ELSE /\ phase' = "serving"
            /\ IF variant = "static_cc"
               THEN LET rq == [req[0] EXCEPT !.route = "startup"]
                    IN  /\ req' = [req EXCEPT ![0] = BeginToken(rq)]
                        /\ logs' = logs \cup StartupLogs \cup LogsBeginToken(rq)
                        /\ ccRead' = (ccRead \/ ReadsCache)
               ELSE /\ logs' = logs \cup StartupLogs
                    /\ UNCHANGED <<req, ccRead>>
    /\ UNCHANGED <<norm, variant, env, now, ticks, cachedToken, tokenExpiresAt, acq, issued, sessions>>

-----------------------------------------------------------------------------
(* Time *)

TickSteps == {540000, 3000000}

Tick(d) ==
    /\ phase = "serving"
    /\ ticks < MaxTicks
    /\ now' = now + d
    /\ ticks' = ticks + 1
    /\ UNCHANGED <<norm, variant, env, phase, cachedToken, tokenExpiresAt, acq, ccRead, issued,
                   sessions, req, logs>>

-----------------------------------------------------------------------------
(* Token endpoint *)

ExpiresInChoices == {120, 3600}

\* the shop's /admin/oauth/access_token answers the request of r
TokenEndpoint(r, kind, hasE, e) ==
    /\ req[r].pc = "tok_sent"
    /\ kind \in {"ok", "http_error", "network_error"}
    /\ IF kind = "ok"
       THEN LET tok == TokStr(Cardinality(issued) + 1)
            IN  /\ issued' = issued \cup
                       {[token |-> tok,
                         expiresAt |-> now + (IF hasE THEN e ELSE DEFAULT_EXPIRES_IN) * 1000]}
                /\ req' = [req EXCEPT ![r].pc = "tok_back",
                                      ![r].tokMsg = [kind |-> "ok", access_token |-> tok,
                                                     has_expires_in |-> hasE,
                                                     expires_in |-> IF hasE THEN e ELSE 0]]
       ELSE /\ hasE = FALSE /\ e = 0
            /\ req' = [req EXCEPT ![r].pc = "tok_back", ![r].tokMsg = [NoMsg EXCEPT !.kind = kind]]
            /\ UNCHANGED issued
    /\ UNCHANGED <<norm, variant, env, phase, now, ticks, cachedToken, tokenExpiresAt, acq, ccRead,
                   sessions, logs>>

\* lines logged by the static-token entry point when the token response arrives
TokenResponseLogs(msg) ==
    IF variant = "static_cc"
    THEN { <<"data">> \o msg.access_token, <<"client_credentials response:">> \o maskForLog(msg.access_token) }
    ELSE {}

\* mutant: the cache is cleared when the refresh fails
CacheAfter_ClearsOnFailure(msg) ==
    IF msg.kind = "ok"
    THEN [token |-> msg.access_token, expiresAt |-> ExpiryOf(msg, now)]
    ELSE [token |-> UNDEF, expiresAt |-> 0]

\* the cache slot after the awaited fetch settled with msg: a failed fetch throws before
\* the two assignments, a successful one makes both
CacheAfter(msg) ==
    IF msg.kind = "ok"
    THEN [token |-> msg.access_token, expiresAt |-> ExpiryOf(msg, now)]
    ELSE [token |-> cachedToken, expiresAt |-> tokenExpiresAt]

\* the awaited fetch of getToken / getAccessToken settles for r
TokenResponse(r) ==
    /\ req[r].pc = "tok_back"
    /\ LET msg == req[r].tokMsg
           rq  == [req[r] EXCEPT !.tokMsg = NoMsg]
       IN  /\ cachedToken' = CacheAfter(msg).token
           /\ tokenExpiresAt' = CacheAfter(msg).expiresAt
           /\ acq' = IF msg.kind = "ok"
                     THEN [at |-> now, has_expires_in |-> msg.has_expires_in,
                           expires_in |-> msg.expires_in]
                     ELSE acq
           /\ IF msg.kind = "ok"
              THEN /\ req' = [req EXCEPT ![r] = ResumeWithToken(rq, cachedToken')]
                   /\ logs' = logs \cup TokenResponseLogs(msg) \cup LogsWithToken(rq, cachedToken')
              ELSE /\ req' = [req EXCEPT ![r] = ResumeTokenFailed(rq, msg)]
                   /\ logs' = logs \cup LogsTokenFailed(rq, msg)
    /\ UNCHANGED <<norm, variant, env, phase, now, ticks, ccRead, issued, sessions>>

-----------------------------------------------------------------------------
(* Token Verifier and Request Authorizer *)

J(key, expired, dest, des) ==
    [form |-> "ok", key |-> key, expired |-> expired, dest |-> dest, des |-> des]

\* the bearer tokens presented
Jwts ==
    { J(SECRET, FALSE, <<"https:", "/", "/">> \o SHOP_A, UNDEF),
      J(SECRET, FALSE, <<"A", ".MYSHOPIFY.COM", "/", "admin">>, UNDEF),
      J(SECRET, FALSE, UNDEF, SHOP_A),
      J(SECRET, FALSE, <<"a">>, UNDEF),
      J(SECRET, FALSE, <<"https:", "/", "/">> \o SHOP_B, UNDEF),
      J(SECRET, FALSE, UNDEF, UNDEF),
      J(SECRET, FALSE, <<"https:", "/", "/", "/">>, UNDEF),
      J(SECRET, TRUE, SHOP_A, UNDEF),
      J(OTHER_SECRET, FALSE, SHOP_A, UNDEF),
      J(OTHER_SECRET, FALSE, SHOP_B, UNDEF),
      [NoJwt EXCEPT !.form = "malformed"] }

\* the Authorization headers presented: none, one that is no Bearer header, a Bearer token
AuthInputs ==
    {[auth |-> "none", jwt |-> NoJwt], [auth |-> "basic", jwt |-> NoJwt]}
    \cup {[auth |-> "bearer", jwt |-> j] : j \in Jwts}

\* req.params.id as the router hands it over: a bare id, an escaped global id, and a text
\* with a "%" that starts no escape sequence
RawIds ==
    { <<"123">>, <<"gid:", "%2F", "%2F", "shopify", "%2F", "DraftOrder", "%2F", "123">>,
      <<"%", "z">> }

\* req.query.customerId / req.query.orderId: absent, empty, or one of the above
QueryIds ==
    {UNDEF, EMPTY, <<"123">>, <<"%", "z">>,
     <<"gid:", "/", "/", "shopify", "/", "DraftOrder", "/", "123">>}

Routes == {"complete", "delete", "options", "test_token", "list", "check"}

\* the entry points that register the list and check routes
ListVariants == {"lib_session", "session_v1", "session_v2"}

\* the id parameter a request of the route can carry
IdInputs(route) ==
    CASE route \in {"complete", "delete"} -> RawIds
      [] route \in {"list", "check"} -> QueryIds
      [] OTHER -> {UNDEF}

\* which middleware the entry point puts before the route
Guard(route) ==
    CASE route = "test_token" -> "none"
      [] route \in {"list", "check"} -> "library"
      [] variant = "jwt_cc" -> "sessionTokenAuth"
      [] variant \in {"cc_only", "static_cc"} -> "requireShopToken"
      [] variant \in {"session_v1", "session_v2"} /\ route = "complete" -> "sessionTokenAuth"
      [] OTHER -> "library"

\* the CORS middleware is installed (every entry point but the library-session one)
HasCors == variant # "lib_session"

\* mutant: the Authorization header is not checked
HeaderOk_Always(rq) == TRUE

\* auth && auth.startsWith("Bearer ")
HeaderOk(rq) == rq.auth = "bearer"

\* the secret the entry point verifies bearer tokens with
VerifySecret == IF variant = "jwt_cc" THEN CLIENT_SECRET ELSE env.SHOPIFY_API_SECRET

\* mutant: the token is decoded but its signature is not checked against the secret
JwtVerifyOk_AnyKey(jwt, secret) == jwt.form = "ok" /\ ~jwt.expired

\* jwtVerify(token, new TextEncoder().encode(secret), { algorithms: ["HS256"] }) resolves
JwtVerifyOk(jwt, secret) ==
    jwt.form = "ok" /\ IsSet(secret) /\ jwt.key = secret /\ ~jwt.expired

Step(rq, name) == [rq EXCEPT !.trace = Append(@, name)]

\* sessionTokenAuth up to its await of jwtVerify
SessionTokenAuthStart(rq) ==
    LET h == Step(rq, "header")
        c == Step(h, "secret")
    IN  IF ~HeaderOk(rq)
        THEN IF variant = "session_v1"
             THEN Respond(h, 401, "", <<"Missing or invalid Authorization header">>)
             ELSE Respond(h, 401, "missing_auth", <<"Missing Authorization header">>)
        ELSE IF variant = "jwt_cc" THEN [h EXCEPT !.pc = "verify"]
        ELSE IF ~IsSet(env.SHOPIFY_API_SECRET)
        THEN IF variant = "session_v1"
             THEN Respond(c, 500, "", <<"Server misconfiguration">>)
             ELSE Respond(c, 500, "no_secret", <<"Server misconfiguration">>)
        ELSE [c EXCEPT !.pc = "verify"]

\* payload.dest || payload.des || "" and the shop it names, in the JWT + client-credentials
\* entry point
tokenShopOf(jwt) ==
    toLowerCase(splitSlash0(stripProtocol(OrElse(OrElse(jwt.dest, jwt.des), EMPTY))))

\* mutant: the token's shop is compared without normalizing it
ShopMismatch_Raw(jwt) == tokenShopOf(jwt) = EMPTY \/ tokenShopOf(jwt) # SHOP_DOMAIN

\* mutant: the shop check is skipped
ShopMismatch_Never(jwt) == FALSE

\* !tokenShop || normalizeShop(tokenShop) !== SHOP_DOMAIN
ShopMismatch(jwt) ==
    tokenShopOf(jwt) = EMPTY \/ normalizeShop(tokenShopOf(jwt)) # SHOP_DOMAIN

\* the destination claim the stored-session authorizers read
destOf(jwt) == IF variant = "session_v1" THEN jwt.dest ELSE OrElse(jwt.dest, jwt.des)

\* the shop the stored-session authorizers derive from it
shopOf(jwt) ==
    IF variant = "session_v1" THEN splitSlash0(stripProtocol(destOf(jwt)))
    ELSE toLowerCase(splitSlash0(stripProtocol(destOf(jwt))))

\* the session ids the entry point tries, in order
Candidates(jwt) ==
    IF variant = "session_v1" THEN sessionIdsV1(shopOf(jwt)) ELSE sessionIds(shopOf(jwt))

\* sessionTokenAuth from the settling of jwtVerify to its next await or its response
SessionTokenAuthVerified(rq) ==
    LET v == Step(rq, "verify")
        s == Step(v, "shop")
    IN  IF ~JwtVerifyOk(rq.jwt, VerifySecret)
        THEN IF variant = "session_v1"
             THEN Respond(v, 401, "", <<"Invalid or expired session token">>)
             ELSE Respond(v, 401, "invalid_token", <<"Invalid session token">>)
        ELSE IF variant = "jwt_cc"
        THEN IF ShopMismatch(rq.jwt)
             THEN Respond(s, 401, "shop_mismatch", <<"Token shop does not match app shop">>)
             ELSE BeginToken(Step(s, "cred"))
        ELSE IF ~IsSet(destOf(rq.jwt))
        THEN Respond(s, 401, IF variant = "session_v1" THEN "" ELSE "missing_dest",
                     <<"Invalid token: missing dest">>)
        ELSE IF shopOf(rq.jwt) = EMPTY
        THEN Respond(s, 401, IF variant = "session_v1" THEN "" ELSE "invalid_dest",
                     <<"Invalid token: invalid dest">>)
        ELSE [Step(s, "cred") EXCEPT !.pc = "lookup",
                                     !.lookups = <<Candidates(rq.jwt)[1]>>]


\* console.error of sessionTokenAuth when jwtVerify rejects
VerifyLogs(rq) ==
    IF JwtVerifyOk(rq.jwt, VerifySecret) THEN {}
    ELSE IF variant = "jwt_cc" THEN {<<"JWT verification failed:", "<err.message>">>}
    ELSE {<<"Session token verification failed:", "<err.message>">>}

\* the session the store holds under sid
SessionOf(sid) == [set |-> TRUE, shop |-> SHOP_A, accessToken |-> SESSION_TOKEN]

\* sessionTokenAuth after loadSession(last id tried) returned
SessionLookedUp(rq) ==
    LET ids == Candidates(rq.jwt)
        n   == Len(rq.lookups)
    IN  IF rq.lookups[n] \in sessions
        THEN EnterHandler([rq EXCEPT !.ctx = SessionOf(rq.lookups[n])])
        ELSE IF n < Len(ids)
        THEN [rq EXCEPT !.lookups = Append(@, ids[n + 1])]
        ELSE IF variant = "session_v1"
        THEN Respond(rq, 401, "", <<"No app session for this shop. Merchant must install the app.">>)
        ELSE Respond(rq, 401, "session_not_found", <<"No app session for this shop.">>)

SessionLookupLogs(rq) ==
    IF variant = "session_v2" /\ SessionLookedUp(rq).code = "session_not_found"
    THEN {<<"No stored session for shop:">> \o shopOf(rq.jwt)}
    ELSE IF SessionLookedUp(rq).handler THEN EnterLogs(rq)
    ELSE {}

-----------------------------------------------------------------------------
(* Inbound requests *)

\* a request arrives: the CORS middleware, then the route's first middleware or handler up
\* to its first await
Arrive(r, route, a, rawId) ==
    /\ phase = "serving"
    /\ r \in Inbound
    /\ req[r].pc = "idle"
    /\ route = "test_token" => variant = "static_cc"
    /\ route \in {"list", "check"} => variant \in ListVariants
    /\ rawId \in IdInputs(route)
    /\ LET rq == [req[r] EXCEPT !.route = route, !.auth = a.auth, !.jwt = a.jwt,
                                !.rawId = rawId]
       IN  IF route = "options" /\ HasCors
           THEN /\ req' = [req EXCEPT ![r] = Respond(rq, 204, "", <<>>)]
                /\ UNCHANGED <<logs, ccRead>>
           ELSE IF Guard(route) = "library" \/ route = "options"
           THEN /\ req' = [req EXCEPT ![r] = [rq EXCEPT !.pc = "libauth"]]
                /\ UNCHANGED <<logs, ccRead>>
           ELSE IF Guard(route) = "sessionTokenAuth"
           THEN /\ req' = [req EXCEPT ![r] = SessionTokenAuthStart(rq)]
                /\ UNCHANGED <<logs, ccRead>>
           ELSE /\ req' = [req EXCEPT ![r] = BeginToken(Step(rq, "cred"))]
                /\ logs' = logs \cup LogsBeginToken(rq)
                /\ ccRead' = (ccRead \/ ReadsCache)
    /\ UNCHANGED <<norm, variant, env, phase, now, ticks, cachedToken, tokenExpiresAt, acq, issued, sessions>>

\* jwtVerify settles for r
AuthVerified(r) ==
    /\ req[r].pc = "verify"
    /\ LET rq == SessionTokenAuthVerified(req[r])
           calls == rq.trace # <<>> /\ rq.trace[Len(rq.trace)] = "cred" /\ variant = "jwt_cc"
       IN  /\ req' = [req EXCEPT ![r] = rq]
           /\ logs' = logs \cup VerifyLogs(req[r])
                           \cup (IF calls THEN LogsBeginToken(req[r]) ELSE {})
           /\ ccRead' = (ccRead \/ (calls /\ ReadsCache))
    /\ UNCHANGED <<norm, variant, env, phase, now, ticks, cachedToken, tokenExpiresAt, acq, issued, sessions>>

\* sessionStorage.loadSession settles for r with a session or with none
LookupReturn(r) ==
    /\ req[r].pc = "lookup"
    /\ req' = [req EXCEPT ![r] = SessionLookedUp(req[r])]
    /\ logs' = logs \cup SessionLookupLogs(req[r])
    /\ UNCHANGED <<norm, variant, env, phase, now, ticks, cachedToken, tokenExpiresAt, acq, ccRead,
                   issued, sessions>>

\* sessionStorage.loadSession rejects for r: the earlier authorizer awaits it inside its
\* try block, the later one outside any
LookupThrows(r) ==
    /\ req[r].pc = "lookup"
    /\ IF variant = "session_v1"
       THEN /\ req' = [req EXCEPT ![r] = Respond(req[r], 401, "", <<"Invalid or expired session token">>)]
            /\ logs' = logs \cup {<<"Session token verification failed:", "<err.message>">>}
       ELSE /\ req' = [req EXCEPT ![r].pc = "unhandled"]
            /\ UNCHANGED logs
    /\ UNCHANGED <<norm, variant, env, phase, now, ticks, cachedToken, tokenExpiresAt, acq, ccRead,
                   issued, sessions>>

\* shopify.validateAuthenticatedSession() of the library lets r through or answers itself
LibAuth(r, pass) ==
    /\ req[r].pc = "libauth"
    /\ IF ~pass
       THEN /\ req' = [req EXCEPT ![r] = Respond(req[r], 403, "library", <<>>)]
            /\ UNCHANGED logs
       ELSE IF req[r].route = "options"
       THEN /\ req' = [req EXCEPT ![r] = Respond(req[r], 200, "", <<"Allow">>)]
            /\ UNCHANGED logs
       ELSE /\ req' = [req EXCEPT ![r] = EnterHandler([req[r] EXCEPT !.ctx = SessionOf(SHOP_A)])]
            /\ logs' = logs \cup EnterLogs(req[r])
    /\ UNCHANGED <<norm, variant, env, phase, now, ticks, cachedToken, tokenExpiresAt, acq, ccRead,
                   issued, sessions>>

DraftObj(id, status, order) == <<"draft", id, status, order>>

\* result.draftOrder?.order
orderOf(d) == IF d \in {NULL, UNDEF} THEN UNDEF ELSE <<d[4]>>

\* fetch / client.request fails: a non-2xx response, a network error, a top-level errors array
UpstreamFailures ==
    {[NoUp EXCEPT !.kind = k] : k \in {"http_error", "network_error", "gql_errors"}}

\* the data the Admin API returns to the query entry point v sends for the route: the
\* fields that query selects
UpstreamDataOf(v, route) ==
    CASE route = "complete" ->
            { [NoUp EXCEPT !.kind = "data", !.userErrors = <<>>,
                           !.draftOrder = DraftObj("gid-1", "COMPLETED",
                                                   IF v = "static_cc" THEN "<undefined>"
                                                   ELSE "order-1")],
              [NoUp EXCEPT !.kind = "data", !.userErrors = <<"err-1">>, !.draftOrder = NULL] }
      [] route = "delete" /\ v = "static_cc" ->
            { [NoUp EXCEPT !.kind = "data", !.deletedId = <<"gid-1">>],
              [NoUp EXCEPT !.kind = "data", !.deletedId = NULL] }
      [] route = "delete" ->
            { [NoUp EXCEPT !.kind = "data", !.userErrors = <<>>,
                           !.deletedDraftOrderId = <<"gid-1">>],
              [NoUp EXCEPT !.kind = "data", !.userErrors = <<"err-1">>,
                           !.deletedDraftOrderId = NULL] }
      [] route = "list" ->
            { [NoUp EXCEPT !.kind = "data", !.nodes = <<"draft-1", "draft-2">>],
              [NoUp EXCEPT !.kind = "data", !.nodes = <<>>] }
      [] route = "check" ->
            { [NoUp EXCEPT !.kind = "data", !.draftOrder = d] :
                 d \in {DraftObj("gid-1", st, "<undefined>") :
                           st \in {"OPEN", "INVOICE_SENT", "COMPLETED"}} \cup {NULL} }
      [] OTHER -> {}

UpstreamData(route) == UpstreamDataOf(variant, route)

GqlOutcomes ==
    UpstreamFailures \cup UNION {UpstreamDataOf(v, route) : v \in Variants, route \in Routes}

\* draftOrder && (draftOrder.status === "OPEN" || draftOrder.status === "INVOICE_SENT")
isDraft(d) == d \notin {NULL, UNDEF} /\ d[3] \in {"OPEN", "INVOICE_SENT"}

\* mutant: the handler does not look at userErrors
HandlerDone_IgnoresUserErrors(rq, up) ==
    IF up.kind # "data" THEN HandlerCatch(rq)
    ELSE RespondJson(rq, 200, [NoJson EXCEPT !.draftOrder = up.draftOrder,
                                             !.order = orderOf(up.draftOrder)])

\* the route handler after its upstream call settled with up
HandlerDone(rq, up) ==
    CASE up.kind # "data" -> HandlerCatch(rq)
      [] rq.route = "list" -> RespondJson(rq, 200, [NoJson EXCEPT !.draftOrders = up.nodes])
      [] rq.route = "check" ->
            RespondJson(rq, 200, [NoJson EXCEPT !.isDraft = IF isDraft(up.draftOrder)
                                                            THEN <<"true">> ELSE <<"false">>])
      [] up.userErrors = UNDEF ->
            \* the mutation selected no userErrors: result.userErrors.length throws
            HandlerCatch(rq)
      [] Len(up.userErrors) > 0 -> RespondJson(rq, 422, [NoJson EXCEPT !.errors = up.userErrors])
      [] rq.route = "complete" ->
            RespondJson(rq, 200, [NoJson EXCEPT !.draftOrder = up.draftOrder,
                                                !.order = orderOf(up.draftOrder)])
      [] OTHER ->
            RespondJson(rq, 200, [NoJson EXCEPT !.deleted = <<"true">>,
                                                !.deletedDraftOrderId = up.deletedDraftOrderId])

HandlerLogs(rq, up) ==
    IF up.kind # "data" \/ (rq.route \in {"complete", "delete"} /\ up.userErrors = UNDEF)
    THEN {<<ErrorLog(rq.route), "<error>">>}
    ELSE {}

\* the Admin GraphQL call of r settles
GraphqlReturn(r, outcome) ==
    /\ req[r].pc = "gql_sent"
    /\ outcome \in UpstreamFailures \cup UpstreamData(req[r].route)
    /\ req' = [req EXCEPT ![r] = HandlerDone([req[r] EXCEPT !.upstream = outcome], outcome)]
    /\ logs' = logs \cup HandlerLogs(req[r], outcome)
    /\ UNCHANGED <<norm, variant, env, phase, now, ticks, cachedToken, tokenExpiresAt, acq, ccRead,
                   issued, sessions>>

-----------------------------------------------------------------------------
(* Specification *)

\* a well-formed request of the configured shop
GoodAuth == [auth |-> "bearer", jwt |-> J(SECRET, FALSE, <<"https:", "/", "/">> \o SHOP_A, UNDEF)]

\* Every entry point and configuration.  The first request ranges over every route, every
\* Authorization header (with a bare id) and every id (with a well-formed header); the
\* others are well-formed requests that compete with it for the token cache.  The clock
\* stands still.
Next ==
    \/ Startup
    \/ \E a \in AuthInputs, route \in Routes \ {"list", "check"} :
          \E id \in IF a = GoodAuth THEN RawIds \cup {UNDEF} ELSE {<<"123">>, UNDEF} :
             Arrive(1, route, a, id)
    \/ \E route \in {"list", "check"}, id \in QueryIds : Arrive(1, route, GoodAuth, id)
    \/ \E r \in Inbound \ {1} : Arrive(r, "complete", GoodAuth, <<"123">>)
    \/ \E r \in Reqs : AuthVerified(r)
    \/ \E r \in Reqs : LookupReturn(r)
    \/ \E r \in Reqs : LookupThrows(r)
    \/ \E r \in Reqs, pass \in BOOLEAN : LibAuth(r, pass)
    \/ \E r \in Reqs, kind \in {"http_error", "network_error"} : TokenEndpoint(r, kind, FALSE, 0)
    \/ \E r \in Reqs : TokenEndpoint(r, "ok", TRUE, 3600)
    \/ \E r \in Reqs : TokenResponse(r)
    \/ \E r \in Reqs, o \in GqlOutcomes : GraphqlReturn(r, o)

Spec == Init /\ [][Next]_vars

\* The entry points that hold the client-credentials cache, under a running clock: the
\* requests are well-formed, the token endpoint answers after any delay with any lifetime.
InitTok ==
    /\ Init
    /\ variant \in TokenVariants
    /\ LoadEnvErrors = {}
    /\ env.SHOPIFY_SHOP = <<"a">> \/ env.SHOPIFY_CLIENT_ID = UNDEF

NextTok ==
    \/ Startup
    \/ \E d \in TickSteps : Tick(d)
    \/ \E r \in Inbound : Arrive(r, "complete", GoodAuth, <<"123">>)
    \/ \E r \in Reqs : AuthVerified(r)
    \/ \E r \in Reqs : TokenEndpoint(r, "http_error", FALSE, 0)
    \/ \E r \in Reqs, hasE \in BOOLEAN, e \in ExpiresInChoices :
          TokenEndpoint(r, "ok", hasE, IF hasE THEN e ELSE 0)
    \/ \E r \in Reqs : TokenResponse(r)

SpecTok == InitTok /\ [][NextTok]_vars

\* The two implementations of normalizeShop, applied again and again to a shop string.
ShopSyms == {"a", "A", " ", "/", ".myshopify.com"}

RECURSIVE StringsUpTo(_)
StringsUpTo(n) ==
    IF n = 0 THEN {<<>>}
    ELSE LET S == StringsUpTo(n - 1)
         IN  S \cup {Append(q, c) : q \in S, c \in ShopSyms}

\* the non-empty shop strings given to normalizeShop
ShopInputs == StringsUpTo(MaxShopLen) \ {<<>>}

\* every argument given to normalizeShop: a non-empty string, the empty string, no string
NormInputs == ShopInputs \cup {EMPTY, UNDEF}

InitNorm ==
    /\ norm \in {[fn |-> f, x |-> x, ys |-> <<>>] :
                    f \in {"normalizeShop", "normalizeShopStatic"}, x \in NormInputs}
    /\ variant = "jwt_cc"
    /\ env = NoEnv
    /\ phase = "boot"
    /\ now = 0
    /\ ticks = 0
    /\ cachedToken = UNDEF
    /\ tokenExpiresAt = 0
    /\ acq = NoAcq
    /\ ccRead = FALSE
    /\ issued = {}
    /\ sessions = {}
    /\ req = [r \in Reqs |-> IdleReq]
    /\ logs = {}

\* normalizeShop is called on the shop string, or on what the previous call returned
NormalizeCall ==
    /\ norm.fn # "none"
    /\ Len(norm.ys) < MaxApply
    /\ LET arg == IF norm.ys = <<>> THEN norm.x ELSE norm.ys[Len(norm.ys)]
       IN  norm' = [norm EXCEPT !.ys = Append(@, IF norm.fn = "normalizeShop"
                                                 THEN normalizeShop(arg)
                                                 ELSE normalizeShopStatic(arg))]
    /\ UNCHANGED <<variant, env, phase, now, ticks, cachedToken, tokenExpiresAt, acq, ccRead,
                   issued, sessions, req, logs>>

NextNorm == NormalizeCall

SpecNorm == InitNorm /\ [][NextNorm]_vars

-----------------------------------------------------------------------------
(* Claims *)

Last(q) == q[Len(q)]

\* a call of getToken / getAccessToken begins for r in this step
CallStarts(r) ==
    \/ r = 0 /\ req[0].pc = "idle" /\ req'[0].pc # "idle"
    \/ /\ r \in Inbound
       /\ variant \in TokenVariants
       /\ req[r].pc \in {"idle", "verify"}
       /\ \/ req[r].pc = "idle" /\ req'[r].route = "test_token"
          \/ /\ req'[r].trace # <<>>
             /\ Last(req'[r].trace) = "cred"
             /\ Len(req'[r].trace) = Len(req[r].trace) + 1

StaticConfigured == variant = "static_cc" /\ trim(OrElse(env.SHOPIFY_ACCESS_TOKEN, EMPTY)) # EMPTY

\* C1: with concurrent token calls whose responses arrive in any order and after any
\* delay, every caller is handed a token that has not expired when it is handed over.
C1_NeverServesExpired ==
    \A r \in Reqs : req[r].tokResult = "ok" => ~req[r].tokExpired

Secrets ==
    {x \in {trim(OrElse(env.SHOPIFY_ACCESS_TOKEN, EMPTY)), CLIENT_SECRET, SESSION_TOKEN}
           \cup {i.token : i \in issued} : IsSet(x)}

\* C9: no log line and no response body contains a full access token, client secret or
\* static token.
C9_NoSecretInOutput ==
    /\ \A line \in logs : \A x \in Secrets : ~includes(line, x)
    /\ \A r \in Reqs : \A x \in Secrets : ~includes(req[r].body, x)

\* C10: with a static access token configured, every getAccessToken call returns that
\* token in the step that calls it, no token request is ever sent, and the
\* client-credentials cache is neither read nor changed.
C10_StaticOnly ==
    (StaticConfigured /\ phase = "serving")
    => /\ cachedToken = UNDEF /\ tokenExpiresAt = 0 /\ ~ccRead /\ issued = {}
       /\ \A r \in Reqs :
             /\ req[r].tokReqs = 0
             /\ req[r].pc \notin {"tok_sent", "tok_back"}
             /\ req[r].tokResult # "error"
             /\ req[r].tokResult = "ok" => req[r].token = trim(env.SHOPIFY_ACCESS_TOKEN)
             /\ req[r].route \in {"startup", "test_token", "complete", "delete"}
                => req[r].tokResult = "ok"

\* C10 witness: with a static token configured, the start-up test, the test-token route and
\* a draft-order request have each been handed the static token.
C10_Witness ==
    /\ StaticConfigured
    /\ req[0].tokResult = "ok"
    /\ \E r1, r2 \in Inbound :
          /\ req[r1].route = "test_token" /\ req[r1].status = 200
          /\ req[r2].route = "complete" /\ req[r2].ctx.accessToken = STATIC


Protected(rq) == rq.route \in {"complete", "delete"}

\* a well-formed bearer token signed with a secret that is not the configured one
WrongSecret(rq) ==
    /\ rq.auth = "bearer" /\ rq.jwt.form = "ok"
    /\ rq.jwt.key \notin {CLIENT_SECRET, env.SHOPIFY_API_SECRET}

NoUpstream(rq) ==
    ~rq.handler /\ ~rq.ctx.set /\ rq.tokReqs = 0 /\ rq.gqlReqs = 0 /\ rq.lookups = <<>>

GoodSig(rq) ==
    /\ rq.auth = "bearer" /\ rq.jwt.form = "ok" /\ ~rq.jwt.expired
    /\ IsSet(CLIENT_SECRET) /\ rq.jwt.key = CLIENT_SECRET

\* the shop the destination claim normalizes to
ClaimedShop(jwt) ==
    LET d    == IF IsSet(jwt.dest) THEN jwt.dest ELSE IF IsSet(jwt.des) THEN jwt.des ELSE EMPTY
        host == toLowerCase(splitSlash0(stripProtocol(d)))
    IN  IF host = EMPTY THEN EMPTY ELSE normalizeShop(host)

\* C6: in the single-tenant authorizer a correctly signed token whose destination normalizes
\* to another shop than SHOP_DOMAIN, or to the empty string, is rejected 401 shop_mismatch
\* before any token call; one whose destination normalizes to SHOP_DOMAIN is never rejected
\* with shop_mismatch and goes on to the credential step.
C6_ShopMismatch ==
    \A r \in Inbound :
       (variant = "jwt_cc" /\ Protected(req[r]) /\ GoodSig(req[r])
        /\ req[r].pc \notin {"idle", "verify"})
       => /\ SHOP_DOMAIN = SHOP_A
          /\ IF ClaimedShop(req[r].jwt) = SHOP_A
             THEN req[r].code # "shop_mismatch" /\ Last(req[r].trace) = "cred"
             ELSE /\ req[r].pc = "done" /\ req[r].status = 401
                  /\ req[r].code = "shop_mismatch"
                  /\ NoUpstream(req[r])
          /\ req[r].jwt.dest \in {<<"a">>, <<"A", ".MYSHOPIFY.COM", "/", "admin">>}
             => req[r].code # "shop_mismatch"
          /\ req[r].jwt.dest \in {<<"https:", "/", "/", "/">>, <<"https:", "/", "/">> \o SHOP_B}
             => req[r].code = "shop_mismatch"

\* C6 witness: in the single-tenant entry point one verified token for another shop was
\* rejected with shop_mismatch and one written "a" (normalizing to the configured shop)
\* reached the handler.
C6_Witness ==
    /\ variant = "jwt_cc"
    /\ \E r \in Inbound :
          /\ GoodSig(req[r]) /\ req[r].jwt.dest = <<"a">>
          /\ req[r].handler /\ req[r].ctx.shop = SHOP_A

\* the steps of sessionTokenAuth in the order the entry point writes them
StepOrder ==
    IF variant = "jwt_cc" THEN <<"header", "verify", "shop", "cred">>
    ELSE <<"header", "secret", "verify", "shop", "cred">>

Reached(rq, name) == \E i \in 1..Len(rq.trace) : rq.trace[i] = name

\* what each step requires of the request, read off the request itself
HeaderPasses(rq) == rq.auth = "bearer"

SecretPasses == variant = "jwt_cc" \/ IsSet(env.SHOPIFY_API_SECRET)

VerifyPasses(rq) ==
    /\ rq.jwt.form = "ok" /\ ~rq.jwt.expired
    /\ IF variant = "jwt_cc" THEN IsSet(CLIENT_SECRET) /\ rq.jwt.key = CLIENT_SECRET
       ELSE rq.jwt.key = env.SHOPIFY_API_SECRET

ShopPasses(rq) ==
    IF variant = "jwt_cc" THEN ClaimedShop(rq.jwt) = SHOP_A
    ELSE LET d == IF variant = "session_v2" /\ ~IsSet(rq.jwt.dest) THEN rq.jwt.des ELSE rq.jwt.dest
         IN  IsSet(d) /\ splitSlash0(stripProtocol(d)) # EMPTY

\* C7: sessionTokenAuth runs header check, token verification, shop check and credential
\* step in that order and stops at the first failure: a step is reached only when every
\* earlier one passed, a failed step is the last one and the request is answered there, a
\* token request or session lookup is made only at the credential step, the authorized
\* context is set only after the credential step succeeded, and the handler (and its
\* upstream call) is entered only with the context set.
C7_FixedOrder ==
    \A r \in Inbound :
       (Protected(req[r]) /\ Guard(req[r].route) = "sessionTokenAuth")
       => LET rq == req[r] IN
          /\ Len(rq.trace) <= Len(StepOrder)
          /\ rq.trace = SubSeq(StepOrder, 1, Len(rq.trace))
          /\ Reached(rq, "secret") => HeaderPasses(rq)
          /\ Reached(rq, "verify") => HeaderPasses(rq) /\ SecretPasses
          /\ Reached(rq, "shop") => HeaderPasses(rq) /\ SecretPasses /\ VerifyPasses(rq)
          /\ Reached(rq, "cred")
             => HeaderPasses(rq) /\ SecretPasses /\ VerifyPasses(rq) /\ ShopPasses(rq)
          /\ (rq.pc # "idle" /\ ~HeaderPasses(rq))
             => rq.pc = "done" /\ Last(rq.trace) = "header"
          /\ (rq.pc # "idle" /\ HeaderPasses(rq) /\ ~SecretPasses)
             => rq.pc = "done" /\ Last(rq.trace) = "secret"
          /\ (rq.pc \notin {"idle", "verify"} /\ HeaderPasses(rq) /\ SecretPasses
              /\ ~VerifyPasses(rq))
             => rq.pc = "done" /\ Last(rq.trace) = "verify"
          /\ (rq.pc \notin {"idle", "verify"} /\ HeaderPasses(rq) /\ SecretPasses
              /\ VerifyPasses(rq) /\ ~ShopPasses(rq))
             => rq.pc = "done" /\ Last(rq.trace) = "shop"
          /\ (rq.tokReqs > 0 \/ rq.lookups # <<>>) => Reached(rq, "cred")
          /\ rq.ctx.set
             => /\ Reached(rq, "cred")
                /\ IF variant = "jwt_cc" THEN rq.tokResult = "ok"
                   ELSE rq.lookups # <<>> /\ Last(rq.lookups) \in sessions
          /\ rq.handler => rq.ctx.set
          /\ rq.gqlReqs > 0 => rq.handler
          /\ (rq.pc = "done" /\ ~rq.handler) => rq.status \in {401, 500, 503}

\* C7 witness: one request failed the shop check and made no token request, another passed
\* every step and entered the handler with the context set.
C7_Witness ==
    \E r1, r2 \in Inbound :
       /\ Guard(req[r1].route) = "sessionTokenAuth" /\ Guard(req[r2].route) = "sessionTokenAuth"
       /\ req[r1].trace # <<>> /\ req[r2].trace # <<>>
       /\ Last(req[r1].trace) = "shop" /\ req[r1].pc = "done" /\ req[r1].tokReqs = 0
       /\ ~req[r1].ctx.set
       /\ Last(req[r2].trace) = "cred" /\ req[r2].ctx.set /\ req[r2].handler

\* the three session ids of a shop, spelled out
ThreeIds(shop) ==
    << <<"offline_">> \o shop, <<"offline_", "https:", "/", "/">> \o shop, shop >>

FirstHit(ids) == CHOOSE i \in 1..Len(ids) : ids[i] \in sessions /\ \A j \in 1..(i - 1) : ids[j] \notin sessions

\* the lookups of a request follow ids in order and stop at the first hit; once settled the
\* request carries the first stored session, or is rejected 401 with code when ids hold none
LookupsFollow(rq, ids, code) ==
    /\ Len(rq.lookups) <= Len(ids)
    /\ rq.lookups = SubSeq(ids, 1, Len(rq.lookups))
    /\ \A i \in 1..(Len(rq.lookups) - 1) : rq.lookups[i] \notin sessions
    /\ rq.pc \notin {"lookup", "unhandled"}
       => IF \E i \in 1..Len(ids) : ids[i] \in sessions
          THEN /\ rq.ctx.set /\ rq.handler
               /\ Len(rq.lookups) = FirstHit(ids)
          ELSE /\ rq.pc = "done" /\ rq.status = 401 /\ rq.code = code
               /\ rq.lookups = ids /\ ~rq.ctx.set /\ ~rq.handler

GqlFailed(rq) == rq.upstream.kind \in {"http_error", "network_error", "gql_errors"}

\* once an upstream call of a request has failed, the request sends nothing more
NoRequestAfterFailure ==
    \A r \in Inbound :
       (req[r].tokResult = "error" \/ GqlFailed(req[r]))
       => /\ req'[r].tokReqs = req[r].tokReqs
          /\ req'[r].gqlReqs = req[r].gqlReqs
          /\ req'[r].status = req[r].status

\* an upstream failure of a complete or delete request is answered to the caller at once
FailureReturned(rq) ==
    /\ rq.tokReqs <= 1 /\ rq.gqlReqs <= 1
    /\ rq.tokResult = "error"
       => rq.pc = "done" /\ rq.status \in {500, 503} /\ rq.gqlReqs = 0 /\ ~rq.handler
    /\ GqlFailed(rq)
       => rq.pc = "done" /\ rq.status = 500 /\ rq.gqlReqs = 1 /\ IsSet(rq.json.error)

\* C11 as stated: every complete or delete request that passed authorization sends exactly
\* one GraphQL request and at most one token request; after an upstream failure it sends no
\* further request and the failure is answered to the caller.
C11_Original ==
    /\ [](\A r \in Inbound :
             Protected(req[r])
             => /\ FailureReturned(req[r])
                /\ req[r].handler => req[r].gqlReqs = 1)
    /\ [][NoRequestAfterFailure]_vars

\* C11 amended: every complete or delete request sends at most one token request and at
\* most one GraphQL request; one that passed authorization sends exactly one GraphQL request
\* when its id can be decoded, and none (answering 500) when decodeURIComponent rejects the
\* id; after an upstream failure it sends no further request and the failure is answered to
\* the caller.
C11_SingleUpstream ==
    /\ [](\A r \in Inbound :
             Protected(req[r])
             => /\ FailureReturned(req[r])
                /\ req[r].handler
                   => IF \E i \in 1..Len(req[r].rawId) : req[r].rawId[i] = "%"
                      THEN /\ req[r].gqlReqs = 0 /\ req[r].pc = "done"
                           /\ req[r].status = 500 /\ req[r].upstream.kind = "none"
                      ELSE req[r].gqlReqs = 1)
    /\ [][NoRequestAfterFailure]_vars

\* C11 witness: one request acquired a token with one token request and its single GraphQL
\* request failed with a network error, answered 500.
C11_Witness ==
    \E r \in Inbound :
       /\ Protected(req[r]) /\ req[r].tokReqs = 1 /\ req[r].gqlReqs = 1
       /\ req[r].upstream.kind = "network_error" /\ req[r].status = 500

\* C12: a complete request whose upstream response carries an empty userErrors list is
\* answered 200 with the upstream draftOrder, and its order, as upstream sent them; one with
\* a non-empty userErrors list is answered 422 with exactly that list; a non-2xx response, a
\* network error or a top-level errors array is answered 500.
C12_CompleteMapping ==
    \A r \in Inbound :
       (req[r].route = "complete" /\ req[r].upstream.kind # "none")
       => LET rq == req[r]
              up == req[r].upstream
          IN  /\ rq.pc = "done" /\ rq.responses = 1
              /\ GqlFailed(rq) => rq.status = 500 /\ rq.json.draftOrder = UNDEF
              /\ (up.kind = "data" /\ up.userErrors = <<>>)
                 => /\ rq.status = 200
                    /\ rq.json.draftOrder = up.draftOrder
                    /\ rq.json.order = IF up.draftOrder = NULL THEN UNDEF
                                       ELSE <<up.draftOrder[4]>>
                    /\ rq.json.errors = UNDEF /\ rq.json.error = UNDEF
              /\ (up.kind = "data" /\ up.userErrors # <<>>)
                 => /\ rq.status = 422
                    /\ rq.json.errors = up.userErrors
                    /\ rq.json.draftOrder = UNDEF /\ rq.json.order = UNDEF

\* C12 witness: one complete request was answered 200 with the draft order and order that
\* upstream sent, another 422 with upstream's user errors.
C12_Witness ==
    \E r1, r2 \in Inbound :
       /\ req[r1].route = "complete" /\ req[r1].status = 200
       /\ req[r1].json.draftOrder = <<"draft", "gid-1", "COMPLETED", "order-1">>
       /\ req[r1].json.order = <<"order-1">>
       /\ req[r2].route = "complete" /\ req[r2].status = 422
       /\ req[r2].json.errors = <<"err-1">>

\* upstream reported the deletion as done
DeleteSucceeded(up) ==
    /\ up.kind = "data"
    /\ up.userErrors \in {<<>>, UNDEF}
    /\ up.deletedDraftOrderId \notin {NULL, UNDEF} \/ up.deletedId \notin {NULL, UNDEF}

\* C13: in every entry point a delete request whose upstream response reports the deletion
\* is answered 200 {deleted: true, deletedDraftOrderId} with the id upstream returned, never
\* with an error status; one whose upstream response carries user errors is answered 422
\* with that list.
C13_DeleteMapping ==
    \A r \in Inbound :
       (req[r].route = "delete" /\ req[r].upstream.kind = "data")
       => LET rq == req[r]
              up == req[r].upstream
          IN  /\ DeleteSucceeded(up)
                 => /\ rq.status = 200
                    /\ rq.json.deleted = <<"true">>
                    /\ rq.json.deletedDraftOrderId =
                          (IF up.deletedDraftOrderId # UNDEF THEN up.deletedDraftOrderId
                           ELSE up.deletedId)
              /\ (up.userErrors # UNDEF /\ up.userErrors # <<>>)
                 => rq.status = 422 /\ rq.json.errors = up.userErrors

\* C14 as stated: every response of the check handler is 200 {isDraft: boolean}, for every
\* input and every upstream outcome, with isDraft false when the upstream call fails.
C14_Original ==
    \A r \in Inbound :
       (req[r].route = "check" /\ req[r].handler /\ req[r].pc = "done")
       => /\ req[r].status = 200
          /\ req[r].json.isDraft \in {<<"true">>, <<"false">>}
          /\ GqlFailed(req[r]) => req[r].json.isDraft = <<"false">>

\* C14 amended: a check request with an orderId is answered 200 {isDraft: boolean} whatever
\* upstream does: true exactly when upstream returns a draft order in status OPEN or
\* INVOICE_SENT, false when the upstream call fails or the orderId cannot be decoded; a
\* check request without orderId (absent or empty) is answered 400 {error: "orderId is
\* required"} and sends no upstream request.
C14_CheckMapping ==
    \A r \in Inbound :
       (req[r].route = "check" /\ req[r].handler)
       => LET rq == req[r]
              up == req[r].upstream
          IN  IF rq.rawId \in {UNDEF, EMPTY}
              THEN /\ rq.pc = "done" /\ rq.status = 400 /\ rq.gqlReqs = 0
                   /\ rq.json.error = <<"orderId is required">>
                   /\ rq.json.isDraft = UNDEF
              ELSE /\ rq.pc = "done"
                      => /\ rq.status = 200 /\ rq.json.error = UNDEF
                         /\ rq.json.isDraft =
                               (IF /\ up.kind = "data" /\ up.draftOrder # NULL
                                   /\ up.draftOrder[3] \in {"OPEN", "INVOICE_SENT"}
                                THEN <<"true">> ELSE <<"false">>)
                   /\ rq.pc # "done" => rq.pc = "gql_sent" /\ rq.gqlReqs = 1
                   /\ rq.gqlReqs <= 1

\* C14 witness: the upstream call of a check request failed with a network error and the
\* request was answered 200 {isDraft: false}.
C14_Witness ==
    \E r \in Inbound :
       /\ req[r].route = "check" /\ req[r].upstream.kind = "network_error"
       /\ req[r].status = 200 /\ req[r].json.isDraft = <<"false">>

\* C15: a list request without customerId is answered 400 {error: "customerId is required"}
\* and sends no upstream request; one with a customerId sends exactly one and is answered
\* 200 {draftOrders} with upstream's nodes when that succeeds.
C15_ListMapping ==
    \A r \in Inbound :
       (req[r].route = "list" /\ req[r].handler)
       => LET rq == req[r]
              up == req[r].upstream
          IN  IF rq.rawId \in {UNDEF, EMPTY}
              THEN /\ rq.pc = "done" /\ rq.status = 400 /\ rq.gqlReqs = 0
                   /\ rq.json.error = <<"customerId is required">>
                   /\ rq.json.draftOrders = UNDEF
              ELSE /\ rq.gqlReqs = 1
                   /\ rq.pc \in {"gql_sent", "done"}
                   /\ rq.pc = "done" <=> up.kind # "none"
                   /\ up.kind = "data"
                      => rq.status = 200 /\ rq.json.draftOrders = up.nodes
                   /\ GqlFailed(rq) => rq.status = 500

\* C15 witness: a list request without customerId was answered 400 with no upstream request.
C15_Witness ==
    \E r \in Inbound :
       /\ req[r].route = "list" /\ req[r].rawId = UNDEF /\ req[r].handler
       /\ req[r].status = 400 /\ req[r].gqlReqs = 0

\* C16: in every entry point an OPTIONS request is answered 204 by the CORS middleware
\* before any authentication middleware or handler runs: no token verification, session
\* validation, token acquisition or upstream call happens for it.
C16_PreflightFirst ==
    \A r \in Inbound :
       (req[r].route = "options" /\ req[r].pc # "idle")
       => /\ req[r].pc = "done" /\ req[r].status = 204
          /\ req[r].trace = <<>> /\ req[r].lookups = <<>>
          /\ req[r].tokReqs = 0 /\ req[r].gqlReqs = 0 /\ ~req[r].handler

\* the required variables the configuration lacks: the shop, and, when neither the static
\* token nor the client id + secret pair is there, the static token and the absent members
\* of the pair
MissingVars ==
    (IF IsSet(env.SHOPIFY_SHOP) \/ IsSet(env.SHOP) THEN {} ELSE {"SHOPIFY_SHOP"})
    \cup (IF \/ trim(OrElse(env.SHOPIFY_ACCESS_TOKEN, EMPTY)) # EMPTY
             \/ /\ IsSet(env.SHOPIFY_CLIENT_ID) \/ IsSet(env.SHOPIFY_API_KEY)
                /\ IsSet(env.SHOPIFY_CLIENT_SECRET) \/ IsSet(env.SHOPIFY_API_SECRET)
          THEN {}
          ELSE {"SHOPIFY_ACCESS_TOKEN"}
               \cup (IF IsSet(env.SHOPIFY_CLIENT_ID) \/ IsSet(env.SHOPIFY_API_KEY)
                     THEN {} ELSE {"SHOPIFY_CLIENT_ID"})
               \cup (IF IsSet(env.SHOPIFY_CLIENT_SECRET) \/ IsSet(env.SHOPIFY_API_SECRET)
                     THEN {} ELSE {"SHOPIFY_CLIENT_SECRET"}))

\* the error output names the variable
Named(v) == \E line \in logs : \E i \in 1..Len(line) : line[i] = v

\* C17: when required configuration is absent the process does not start serving but exits,
\* and its error output names every missing variable, not only the first one found missing.
C17_NamesEveryMissing ==
    /\ (MissingVars # {} /\ phase # "boot") => phase = "exited"
    /\ phase = "exited" => \A v \in MissingVars : Named(v)

\* the configuration holds what the entry point's auth strategy needs
StrategyConfigured ==
    CASE variant \in {"session_v1", "session_v2"} -> IsSet(env.SHOPIFY_API_SECRET)
      [] variant \in {"jwt_cc", "cc_only"} ->
            /\ IsSet(env.SHOPIFY_CLIENT_ID) \/ IsSet(env.SHOPIFY_API_KEY)
            /\ IsSet(env.SHOPIFY_CLIENT_SECRET) \/ IsSet(env.SHOPIFY_API_SECRET)
      [] variant = "static_cc" ->
            \/ trim(OrElse(env.SHOPIFY_ACCESS_TOKEN, EMPTY)) # EMPTY
            \/ /\ IsSet(env.SHOPIFY_CLIENT_ID) \/ IsSet(env.SHOPIFY_API_KEY)
               /\ IsSet(env.SHOPIFY_CLIENT_SECRET) \/ IsSet(env.SHOPIFY_API_SECRET)
      [] OTHER -> TRUE

\* C18: no request is received by a process whose configuration lacks what its auth strategy
\* needs (the lack stops the process at start-up), and no request is answered with a
\* misconfiguration outcome.
C18_FailFast ==
    \A r \in Inbound :
       req[r].pc # "idle"
       => /\ StrategyConfigured
          /\ req[r].code # "no_secret"
          /\ ~(req[r].status = 500 /\ req[r].json.error = <<"Server misconfiguration">>)

\* C19: every error response (4xx or 5xx) that the authorizer or the complete and delete
\* handlers send carries a human-readable error message and a machine-readable code.
C19_ErrorShape ==
    \A r \in Inbound :
       (/\ Protected(req[r]) /\ req[r].pc = "done" /\ req[r].status >= 400
        /\ req[r].handler \/ req[r].trace # <<>>)
       => IsSet(req[r].json.error) /\ req[r].code # ""

\* C20: both implementations of normalizeShop are idempotent on every non-empty string:
\* normalizing the result of a normalization returns it unchanged.
C20_Idempotent ==
    Len(norm.ys) >= 2 => norm.ys[2] = norm.ys[1]

endsWith(s, suf) == Len(s) >= Len(suf) /\ SubSeq(s, Len(s) - Len(suf) + 1, Len(s)) = suf

\* a lowercase host that ends in the canonical suffix and has no path segment
CanonicalHost(y) ==
    /\ y = toLowerCase(y)
    /\ endsWith(y, SUFFIX)
    /\ \A i \in 1..Len(y) : y[i] # "/"

\* C21: whatever its input, normalizeShop returns the empty string (for an empty or absent
\* input) or a lowercase host that ends in ".myshopify.com" and contains no "/", in both
\* implementations.
C21_CanonicalResult ==
    Len(norm.ys) >= 1
    => /\ ~IsSet(norm.x) => norm.ys[1] = EMPTY
       /\ norm.ys[1] = EMPTY \/ CanonicalHost(norm.ys[1])

\* the requests whose handler has parsed a draft order id
ParsedId(rq) == rq.route \in {"complete", "delete", "check"} /\ rq.handler

GID_123 == GID_PREFIX \o <<"shopify", "/", "DraftOrder", "/", "123">>

Waiting(rq) == rq.pc \in {"verify", "lookup", "libauth", "tok_sent", "tok_back", "gql_sent"}

\* C23: at every moment a request that arrived at a protected route either has received
\* exactly one response or has received none and waits for a call that has yet to return
\* or fail, whatever the token verifier, the session store, the token endpoint and the
\* GraphQL endpoint returned so far: no path leaves it unanswered with nothing pending
\* and no path answers it twice.
C23_AnsweredOnce ==
    \A r \in Inbound :
       (req[r].pc # "idle" /\ Protected(req[r]))
       => \/ req[r].pc = "done" /\ req[r].responses = 1
          \/ Waiting(req[r]) /\ req[r].responses = 0

====
